---- MODULE Spec2Model ----
(***************************************************************************)
(* Model of the script execution service: api/validation.py (the static    *)
(* validator), api/controller.py (harness, remote and local backends,      *)
(* fallback orchestration, result normalisation) and sandbox/runner.py     *)
(* (the remote runner's /run handler).                                     *)
(*                                                                         *)
(* Texts (stdout, stderr, error messages) are sequences of string pieces   *)
(* standing for their concatenation; "\n" is the line break and            *)
(* _RESULT_MARKER is one piece.  A script is its syntax tree: a sequence   *)
(* of top-level statements, plus the attributes the validator reads        *)
(* (emptiness, length, whether it parses).                                 *)
(***************************************************************************)
EXTENDS Integers, Sequences, FiniteSets, TLC

VARIABLES
    script,        \* the submitted script (argument of execute_script / validate_script)
    timeout,       \* the timeout argument of execute_script
    pc,            \* position of execute_script: idle, remote_wait, fallback, local_run, done, fault
    validation,    \* what validate_script returned: [ok, err]
    netReq,        \* the POST to RUNNER_URL: none, sent, lost, delivered
    netResp,       \* the runner's HTTP response: [status, body, run]
    runnerPc,      \* position of the runner's /run handler: idle, running, done
    remoteCalls,   \* number of _remote_runner calls made by the request
    localCalls,    \* number of _local_runner calls made by the request
    remoteState,   \* the remote attempt: none, pending, ok, failed
    fallbackNote,  \* the "[runner-unavailable] ..." note of the except branch
    tmpFiles,      \* temporary harness files that exist: subset of {"api", "runner"}
    raw,           \* (result_json_text, full_stdout, full_stderr, return_code) of the run
    response,      \* the dict execute_script returned
    run,           \* what the harness process whose output became raw did
    vdone          \* TRUE once validate_script has been applied (validator specification)

vars == <<script, timeout, pc, validation, netReq, netResp, runnerPc, remoteCalls,
          localCalls, remoteState, fallbackNote, tmpFiles, raw, response, run, vdone>>

-----------------------------------------------------------------------------
(* Bounds of the model *)

\* longest statement list of a script given to the validator alone
MaxStmts == 3
\* longest statement list of a script given to execute_script
MaxExecStmts == 1
\* most complete lines main prints before it ends
MaxLines == 1

-----------------------------------------------------------------------------
(* Python values: Optional[str] and text helpers *)

None == [some |-> FALSE, v |-> <<>>]
Some(t) == [some |-> TRUE, v |-> t]

NL == "\n"

RECURSIVE SeqToSet(_)
SeqToSet(s) == IF s = <<>> THEN {} ELSE {Head(s)} \cup SeqToSet(Tail(s))

\* sequences over S of length at most n
SeqsUpTo(S, n) == UNION {[1..k -> S] : k \in 0..n}

\* sep.join(parts), parts being texts
RECURSIVE Join(_, _)
Join(sep, parts) ==
    IF parts = <<>> THEN <<>>
    ELSE IF Len(parts) = 1 THEN Head(parts)
    ELSE Head(parts) \o <<sep>> \o Join(sep, Tail(parts))

-----------------------------------------------------------------------------
(* api/validation.py *)

MAX_SCRIPT_SIZE == 200 * 1024
MAX_FUNCTION_DEFS == 100

\* dotted names are sequences of components
DISALLOWED_GLOBAL_NAMES ==
    { <<"eval">>, <<"exec">>, <<"compile">>, <<"importlib">>, <<"ctypes">>,
      <<"ctypes", "util">>, <<"subprocess">>, <<"socket">>, <<"multiprocessing">>,
      <<"threading">>, <<"os", "system">>, <<"sys", "modules">>, <<"__import__">> }

DISALLOWED_ATTRS ==
    { <<"os", "system">>, <<"os", "popen">>, <<"os", "execv">>, <<"os", "execl">>,
      <<"sys", "exec_prefix">> }

\* the names flagged even when only referenced
DISALLOWED_REFERENCES == {"eval", "exec", "__import__"}

\* A statement of the script:
\*   k = "FunctionDef"  def a(): ...                 (top level)
\*   k = "If"           if ...: def a(): ...         (a nested definition)
\*   k = "CallName"     a(...)
\*   k = "CallAttr"     a.b(...)
\*   k = "Name"         a
\*   k = "Attr"         a.b
\*   k = "Import"       import m[1], m[2], ...
\*   k = "ImportFrom"   from m[1] import ...
Stmt(k, a, b, m) == [k |-> k, a |-> a, b |-> b, m |-> m]

StmtKinds ==
    { Stmt("FunctionDef", "main", "", <<>>),
      Stmt("If", "main", "", <<>>),
      Stmt("CallName", "print", "", <<>>),
      Stmt("CallName", "eval", "", <<>>),
      Stmt("CallName", "compile", "", <<>>),
      Stmt("CallAttr", "os", "system", <<>>),
      Stmt("Name", "exec", "", <<>>),
      Stmt("Attr", "os", "popen", <<>>),
      Stmt("Import", "", "", << <<"json">>, <<"importlib", "util">> >>),
      Stmt("ImportFrom", "", "", << <<"socket">> >>) }

\* A script: pytype is the Python type of the submitted value; blank means
\* script.strip() is empty; size is len(script); parses tells whether
\* ast.parse succeeds; body is tree.body; extraDefs counts further top-level
\* function definitions (none of them named main) that are not listed in body.
ScriptRec(pt, bl, sz, ps, bd, ed) ==
    [pytype |-> pt, blank |-> bl, size |-> sz, parses |-> ps, body |-> bd, extraDefs |-> ed]

ScriptSizes == {MAX_SCRIPT_SIZE, MAX_SCRIPT_SIZE + 1}
ExtraDefCounts == {0, MAX_FUNCTION_DEFS - 1, MAX_FUNCTION_DEFS}

ScriptsUpTo(n) ==
    { ScriptRec("None", FALSE, 0, FALSE, <<>>, 0), ScriptRec("int", FALSE, 0, FALSE, <<>>, 0) }
    \cup { ScriptRec("str", TRUE, sz, TRUE, <<>>, 0) : sz \in {0} \cup ScriptSizes }
    \cup { ScriptRec("str", FALSE, sz, FALSE, <<>>, 0) : sz \in ScriptSizes }
    \cup { ScriptRec("str", FALSE, sz, TRUE, bd, ed) :
              sz \in ScriptSizes, bd \in SeqsUpTo(StmtKinds, n) \ {<<>>}, ed \in ExtraDefCounts }

\* Nodes of the syntax tree, as ast.walk yields them (breadth first)
Node(type, id, fkind, fid, attr, names) ==
    [type |-> type, id |-> id, fkind |-> fkind, fid |-> fid, attr |-> attr, names |-> names]

\* the node of a statement in tree.body
StmtNode(s) ==
    CASE s.k = "FunctionDef" -> Node("FunctionDef", s.a, "", "", "", <<>>)
      [] s.k = "If"          -> Node("If", "", "", "", "", <<>>)
      [] s.k = "Import"      -> Node("Import", "", "", "", "", s.m)
      [] s.k = "ImportFrom"  -> Node("ImportFrom", "", "", "", "", s.m)
      [] OTHER               -> Node("Expr", "", "", "", "", <<>>)

\* its children
StmtChildren(s) ==
    CASE s.k = "If"       -> << Node("FunctionDef", s.a, "", "", "", <<>>) >>
      [] s.k = "CallName" -> << Node("Call", "", "Name", s.a, "", <<>>) >>
      [] s.k = "CallAttr" -> << Node("Call", "", "Attribute", s.a, s.b, <<>>) >>
      [] s.k = "Name"     -> << Node("Name", s.a, "", "", "", <<>>) >>
      [] s.k = "Attr"     -> << Node("Attribute", "", "", s.a, s.b, <<>>) >>
      [] OTHER            -> <<>>

\* its grandchildren: func of a call, value of an attribute
StmtGrandChildren(s) ==
    CASE s.k = "CallName" -> << Node("Name", s.a, "", "", "", <<>>) >>
      [] s.k = "CallAttr" -> << Node("Attribute", "", "", s.a, s.b, <<>>) >>
      [] s.k = "Attr"     -> << Node("Name", s.a, "", "", "", <<>>) >>
      [] OTHER            -> <<>>

\* and the value of a call's func attribute
StmtGreatGrandChildren(s) ==
    CASE s.k = "CallAttr" -> << Node("Name", s.a, "", "", "", <<>>) >>
      [] OTHER            -> <<>>

RECURSIVE MapFlat(_, _)
MapFlat(F(_), body) ==
    IF body = <<>> THEN <<>> ELSE F(Head(body)) \o MapFlat(F, Tail(body))

StmtNodeSeq(s) == << StmtNode(s) >>

\* ast.walk(tree) for a parsed script, without the Module node and the
\* nodes of the unlisted extra definitions (neither raises an issue)
Walk(s) ==
    MapFlat(StmtNodeSeq, s.body) \o MapFlat(StmtChildren, s.body)
      \o MapFlat(StmtGrandChildren, s.body) \o MapFlat(StmtGreatGrandChildren, s.body)

\* has_main_function searching the whole tree instead of tree.body
has_main_anywhere(s) ==
    /\ s.parses
    /\ \E i \in 1..Len(s.body) : s.body[i].k \in {"FunctionDef", "If"} /\ s.body[i].a = "main"

\* has_main_function: a FunctionDef named main in tree.body
has_main_function(s) ==
    /\ s.parses
    /\ \E i \in 1..Len(s.body) : s.body[i].k = "FunctionDef" /\ s.body[i].a = "main"

IsPrefix(p, q) == Len(p) <= Len(q) /\ SubSeq(q, 1, Len(p)) = p

\* name == d or name.startswith(d + ".") for some d of DISALLOWED_GLOBAL_NAMES
ModuleDisallowed(name) == \E d \in DISALLOWED_GLOBAL_NAMES : IsPrefix(d, name)

Dotted(name) == Join(".", [i \in 1..Len(name) |-> <<name[i]>>])

\* One issue is one text; its pieces are kept apart so that it can be found
\* again in the message.
CallIssue(name) == <<"Use of '", name, "()' is disallowed for security reasons.">>
AttrCallIssue(v, a) == <<"Use of '", v, ".", a, "()' is disallowed for security reasons.">>
ImportIssue(name) == <<"Import of '">> \o Dotted(name) \o <<"' is disallowed or flagged as suspicious.">>
ImportFromIssue(name) == <<"Import-from '">> \o Dotted(name) \o <<"' is disallowed or flagged as suspicious.">>
ReferenceIssue(id) == <<"Reference to '", id, "' is disallowed.">>
AttributeIssue(v, a) == <<"Use of attribute '", v, ".", a, "' is disallowed.">>
SyntaxIssue == <<"Script is syntactically invalid Python.">>
TooManyDefsIssue(n) ==
    <<"Too many function definitions (", ToString(n), " > ", ToString(MAX_FUNCTION_DEFS), ").">>

RECURSIVE ImportIssues(_)
ImportIssues(names) ==
    IF names = <<>> THEN <<>>
    ELSE (IF ModuleDisallowed(Head(names)) THEN << ImportIssue(Head(names)) >> ELSE <<>>)
         \o ImportIssues(Tail(names))

\* the issues the loop body appends for one node
NodeIssues(n) ==
    (IF n.type = "Call"
     THEN IF n.fkind = "Name"
          THEN IF <<n.fid>> \in DISALLOWED_GLOBAL_NAMES THEN << CallIssue(n.fid) >> ELSE <<>>
          ELSE IF <<n.fid, n.attr>> \in DISALLOWED_ATTRS
               THEN << AttrCallIssue(n.fid, n.attr) >> ELSE <<>>
     ELSE <<>>)
    \o (IF n.type = "Import" THEN ImportIssues(n.names)
        ELSE IF n.type = "ImportFrom"
             THEN IF ModuleDisallowed(n.names[1]) THEN << ImportFromIssue(n.names[1]) >> ELSE <<>>
             ELSE <<>>)
    \o (IF n.type = "Name" /\ n.id \in DISALLOWED_REFERENCES
        THEN << ReferenceIssue(n.id) >> ELSE <<>>)
    \o (IF n.type = "Attribute" /\ <<n.fid, n.attr>> \in DISALLOWED_ATTRS
        THEN << AttributeIssue(n.fid, n.attr) >> ELSE <<>>)

\* number of FunctionDef nodes anywhere in the tree
FnCount(s) ==
    Cardinality({i \in 1..Len(Walk(s)) : Walk(s)[i].type = "FunctionDef"}) + s.extraDefs

RECURSIVE Dedup(_, _)
Dedup(issues, uniq) ==
    IF issues = <<>> THEN uniq
    ELSE Dedup(Tail(issues),
               IF Head(issues) \in SeqToSet(uniq) THEN uniq ELSE Append(uniq, Head(issues)))

\* _find_disallowed_usage with the limit compared by >= instead of >
find_disallowed_usage_ge(s) ==
    IF ~s.parses THEN << SyntaxIssue >>
    ELSE Dedup((IF FnCount(s) >= MAX_FUNCTION_DEFS THEN << TooManyDefsIssue(FnCount(s)) >> ELSE <<>>)
               \o MapFlat(NodeIssues, Walk(s)), <<>>)

\* _find_disallowed_usage
find_disallowed_usage(s) ==
    IF ~s.parses THEN << SyntaxIssue >>
    ELSE Dedup((IF FnCount(s) > MAX_FUNCTION_DEFS THEN << TooManyDefsIssue(FnCount(s)) >> ELSE <<>>)
               \o MapFlat(NodeIssues, Walk(s)), <<>>)

\* issues[:5]
MaxShownIssues == 5
FirstIssues(issues) == SubSeq(issues, 1, IF Len(issues) < MaxShownIssues THEN Len(issues) ELSE MaxShownIssues)

MissingScriptMsg == <<"Missing 'script' field.">>
NotStringMsg == <<"'script' must be a string.">>
EmptyScriptMsg == <<"'script' must be a non-empty string.">>
TooLargeMsg == <<"Script too large (>", ToString(MAX_SCRIPT_SIZE), " bytes).">>
MissingMainMsg == <<"Script must define a top-level function named 'main()'.">>
DisallowedPrefix == "Script contains disallowed or suspicious constructs: "

Rejected(msg) == [ok |-> FALSE, err |-> Some(msg)]
Accepted == [ok |-> TRUE, err |-> None]

validate_script(s) ==
    IF s.pytype = "None" THEN Rejected(MissingScriptMsg)
    ELSE IF s.pytype # "str" THEN Rejected(NotStringMsg)
    ELSE IF s.blank THEN Rejected(EmptyScriptMsg)
    ELSE IF s.size > MAX_SCRIPT_SIZE THEN Rejected(TooLargeMsg)
    ELSE IF ~has_main_function(s) THEN Rejected(MissingMainMsg)
    ELSE IF find_disallowed_usage(s) # <<>>
         THEN Rejected(<<DisallowedPrefix>> \o Join("; ", FirstIssues(find_disallowed_usage(s))))
         ELSE Accepted

-----------------------------------------------------------------------------
(* Python values and the JSON payload encoder/decoder *)

PyVal(t, v) == [t |-> t, v |-> v]
PyNone == PyVal("None", 0)
PyInt42 == PyVal("int", 42)
PyInt7 == PyVal("int", 7)
PyTuple1 == PyVal("tuple", 1)        \* (1,)
PyList1 == PyVal("list", 1)          \* [1]
PyObject == PyVal("object", 0)       \* object()
PyErrorDict == PyVal("dict", 0)      \* {"__error__": "<detail>"}

\* what main may return
ReturnValues == {PyNone, PyInt42, PyTuple1, PyObject}

NotSerializableDetail == "Object of type object is not JSON serializable"
ErrorPayload == "{\"__error__\": \"Object of type object is not JSON serializable\"}"

\* str(v) in place of json.dumps(v): None is written as the text None
json_dumps_str(v) ==
    CASE v = PyNone      -> [ok |-> TRUE, text |-> "None"]
      [] v.t = "int"     -> [ok |-> TRUE, text |-> ToString(v.v)]
      [] v = PyTuple1    -> [ok |-> TRUE, text |-> "(1,)"]
      [] v = PyList1     -> [ok |-> TRUE, text |-> "[1]"]
      [] OTHER           -> [ok |-> TRUE, text |-> "<object>"]

\* json.dumps(v): [ok, text]; ok = FALSE is the TypeError
json_dumps(v) ==
    CASE v = PyNone      -> [ok |-> TRUE, text |-> "null"]
      [] v.t = "int"     -> [ok |-> TRUE, text |-> ToString(v.v)]
      [] v = PyTuple1    -> [ok |-> TRUE, text |-> "[1]"]
      [] v = PyList1     -> [ok |-> TRUE, text |-> "[1]"]
      [] v = PyErrorDict -> [ok |-> TRUE, text |-> ErrorPayload]
      [] OTHER           -> [ok |-> FALSE, text |-> NotSerializableDetail]

\* json.loads(text): [ok, val]; ok = FALSE is the JSONDecodeError
json_loads(text) ==
    CASE text = <<"null">>       -> [ok |-> TRUE, val |-> PyNone]
      [] text = <<"42">>         -> [ok |-> TRUE, val |-> PyInt42]
      [] text = <<"7">>          -> [ok |-> TRUE, val |-> PyInt7]
      [] text = <<"[1]">>        -> [ok |-> TRUE, val |-> PyList1]
      [] text = <<ErrorPayload>> -> [ok |-> TRUE, val |-> PyErrorDict]
      [] OTHER                   -> [ok |-> FALSE, val |-> PyNone]

-----------------------------------------------------------------------------
(* api/controller.py: constants and the harness *)

RESULT_MARKER == "<<<__PY_RESULT__>>>"
DEFAULT_TIMEOUT_SECS == 5
REQUEST_TIMEOUT == 10

\* values of the timeout argument
Timeouts == {DEFAULT_TIMEOUT_SECS, REQUEST_TIMEOUT}

\* What the harness process does is decided by the script at run time:
\* lines  the complete lines main prints to stdout
\* frag   text main writes to stdout after them without a line break
\* uerr   text main writes to stderr
\* ret    how main ends: return (of val), raise, exit (SystemExit, status
\*        code) or hang (it does not end within the timeout)
Outcome(kind, val, code) == [kind |-> kind, val |-> val, code |-> code]
MainOutcomes ==
    { Outcome("return", v, 0) : v \in ReturnValues }
    \cup { Outcome("raise", PyNone, 0), Outcome("exit", PyNone, 0) }

LineKinds ==
    { <<"x">>, <<RESULT_MARKER, "7">>, <<RESULT_MARKER, "null">>, <<RESULT_MARKER, "x">>,
      <<"x", RESULT_MARKER, "x">> }
Fragments == { <<>>, <<"x">>, <<RESULT_MARKER>> }
UserErrs == { <<>>, <<" ">>, <<"e">> }

RunRec(lines, frag, uerr, ret) == [lines |-> lines, frag |-> frag, uerr |-> uerr, ret |-> ret]

\* a run that hangs: both backends drop whatever it wrote before the timeout
HangRun == RunRec(<<>>, <<>>, <<>>, Outcome("hang", PyNone, 0))

Runs ==
    { RunRec(l, f, e, r) :
        l \in SeqsUpTo(LineKinds, MaxLines), f \in Fragments, e \in UserErrs, r \in MainOutcomes }
    \cup {HangRun}
NoRun == RunRec(<<>>, <<>>, <<>>, Outcome("none", PyNone, 0))

AddNL(line) == line \o <<NL>>
\* everything main wrote to stdout
UserStdout(r) == MapFlat(AddNL, r.lines) \o r.frag

Traceback == <<"Traceback (most recent call last):", NL, "Exception", NL>>

\* The harness of _build_harness run to its end: main's output, then
\* __run_and_emit_result.  [stdout, stderr, return_code]
ProcResult(out, err, rc) == [stdout |-> out, stderr |-> err, return_code |-> rc]

HarnessExit(r) ==
    CASE r.ret.kind = "raise" ->
            ProcResult(UserStdout(r), r.uerr \o Traceback, 1)
      [] r.ret.kind = "exit" ->
            ProcResult(UserStdout(r), r.uerr, r.ret.code)
      [] r.ret.kind = "return" /\ ~json_dumps(r.ret.val).ok ->
            ProcResult(UserStdout(r) \o <<RESULT_MARKER, ErrorPayload, NL>>, r.uerr, 2)
      [] OTHER ->
            ProcResult(UserStdout(r) \o <<RESULT_MARKER, json_dumps(r.ret.val).text, NL>>, r.uerr, 0)

-----------------------------------------------------------------------------
(* str methods *)

\* text.splitlines()
RECURSIVE Split(_, _)
Split(t, cur) ==
    IF t = <<>> THEN (IF cur = <<>> THEN <<>> ELSE <<cur>>)
    ELSE IF Head(t) = NL THEN <<cur>> \o Split(Tail(t), <<>>)
    ELSE Split(Tail(t), Append(cur, Head(t)))

splitlines(t) == Split(t, <<>>)

\* line.startswith(_RESULT_MARKER)
startswith_marker(line) == line # <<>> /\ Head(line) = RESULT_MARKER

IsSpace(c) == c \in {NL, " "}

RECURSIVE LStrip(_)
LStrip(t) == IF t # <<>> /\ IsSpace(Head(t)) THEN LStrip(Tail(t)) ELSE t

RECURSIVE RStrip(_)
RStrip(t) == IF t # <<>> /\ IsSpace(t[Len(t)]) THEN RStrip(SubSeq(t, 1, Len(t) - 1)) ELSE t

\* text.strip()
strip(t) == RStrip(LStrip(t))

-----------------------------------------------------------------------------
(* api/controller.py: result extraction and normalisation *)

\* the loop of _local_runner / _remote_runner: payload of the last marker line
RECURSIVE LastMarker(_, _)
LastMarker(lines, found) ==
    IF lines = <<>> THEN found
    ELSE LastMarker(Tail(lines),
                    IF startswith_marker(Head(lines)) THEN Some(Tail(Head(lines))) ELSE found)

result_json_text(stdout) == LastMarker(splitlines(stdout), None)

\* the tuple both runners return
RawRec(rjt, out, err, rc) ==
    [result_json_text |-> rjt, stdout |-> out, stderr |-> err, return_code |-> rc]
NoRaw == RawRec(None, <<>>, <<>>, 0)

RawOf(p) == RawRec(result_json_text(p.stdout), p.stdout, p.stderr, p.return_code)

TimeoutStderr(t) == <<"Execution timed out after ", ToString(t), " seconds">>

\* a timeout branch of _local_runner that returns the sentinel without the text
LocalTimeoutRawNoText(t) == RawRec(None, <<>>, <<>>, -1)

\* what _local_runner returns when subprocess.run raises TimeoutExpired
LocalTimeoutRaw(t) == RawRec(None, <<>>, TimeoutStderr(t), -1)

Response(result, out, err) == [result |-> result, stdout |-> out, error |-> err]
NoResponse == Response(PyNone, <<>>, None)

\* the filter of printed_stdout testing "marker in line" instead of startswith
NotContainingMarker(line) == RESULT_MARKER \notin SeqToSet(line)

NotMarkerLine(line) == ~startswith_marker(line)

\* printed_stdout: the lines that do not start with the marker, joined
printed_stdout(full_stdout) == Join(NL, SelectSeq(splitlines(full_stdout), NotMarkerLine))

TimeoutError(t) == <<"Execution timed out after ", ToString(t), " seconds.">>
NoResultError(rc) == <<"Script did not produce a JSON result (return code ", ToString(rc), ").">>
InvalidJsonError == <<"Returned value is not valid JSON: ", "JSONDecodeError">>

\* the same tail testing the -1 sentinel before stderr
NormalizeSentinelFirst(r, t) ==
    IF ~r.result_json_text.some
    THEN IF r.return_code = -1
         THEN Response(PyNone, printed_stdout(r.stdout), Some(TimeoutError(t)))
         ELSE IF r.stderr # <<>> /\ strip(r.stderr) # <<>>
              THEN Response(PyNone, printed_stdout(r.stdout), Some(strip(r.stderr)))
              ELSE Response(PyNone, printed_stdout(r.stdout), Some(NoResultError(r.return_code)))
    ELSE IF ~json_loads(r.result_json_text.v).ok
         THEN Response(PyNone, printed_stdout(r.stdout), Some(InvalidJsonError))
         ELSE Response(json_loads(r.result_json_text.v).val, printed_stdout(r.stdout), None)

\* the tail of execute_script, from "Collect printed stdout" on
Normalize(r, t) ==
    IF ~r.result_json_text.some
    THEN IF r.stderr # <<>> /\ strip(r.stderr) # <<>>
         THEN Response(PyNone, printed_stdout(r.stdout), Some(strip(r.stderr)))
         ELSE IF r.return_code = -1
              THEN Response(PyNone, printed_stdout(r.stdout), Some(TimeoutError(t)))
              ELSE Response(PyNone, printed_stdout(r.stdout), Some(NoResultError(r.return_code)))
    ELSE IF ~json_loads(r.result_json_text.v).ok
         THEN Response(PyNone, printed_stdout(r.stdout), Some(InvalidJsonError))
         ELSE Response(json_loads(r.result_json_text.v).val, printed_stdout(r.stdout), None)

\* fallback_note and the stderr it is prepended to
FallbackNote(reason) == <<"[runner-unavailable] ", reason>>

WithFallbackNote(note, r) ==
    [r EXCEPT !.stderr = IF r.stderr # <<>> THEN note \o <<NL>> \o r.stderr ELSE note]

-----------------------------------------------------------------------------
(* The HTTP exchange with the runner service *)

\* a JSON body: the keys present and their values
Body(keys, out, err, rc) == [keys |-> keys, stdout |-> out, stderr |-> err, return_code |-> rc]
RunnerBody(p) == Body({"stdout", "stderr", "return_code"}, p.stdout, p.stderr, p.return_code)
NoBody == Body({}, <<>>, <<>>, 0)

HttpResp(status, body, r) == [status |-> status, body |-> body, run |-> r]
NoResp == HttpResp(0, NoBody, NoRun)

\* resp.json() and the three body.get(...) of _remote_runner, then the marker loop
RemoteRaw(body) ==
    RawOf(ProcResult(IF "stdout" \in body.keys THEN body.stdout ELSE <<>>,
                     IF "stderr" \in body.keys THEN body.stderr ELSE <<>>,
                     IF "return_code" \in body.keys THEN body.return_code ELSE 1))

\* what run_harness puts in its response when subprocess.run raises
RunnerTimeoutResult(t) == ProcResult(<<>>, TimeoutStderr(t), -1)
RunnerInternalError == ProcResult(<<>>, <<"Runner internal error:", "\\n", "Traceback">>, -2)

\* faults of the environment while the harness file is made and started
StartFaults == {"ok", "create_fault", "write_fault", "spawn_fault"}

-----------------------------------------------------------------------------
(* State machine *)

NoScript == ScriptRec("unset", FALSE, 0, FALSE, <<>>, 0)
NoValidation == [ok |-> FALSE, err |-> None]

\* scripts submitted to execute_script
ExecScripts == ScriptsUpTo(MaxExecStmts)

Init ==
    /\ script = NoScript
    /\ timeout = DEFAULT_TIMEOUT_SECS
    /\ pc = "idle"
    /\ validation = NoValidation
    /\ netReq = "none"
    /\ netResp = NoResp
    /\ runnerPc = "idle"
    /\ remoteCalls = 0
    /\ localCalls = 0
    /\ remoteState = "none"
    /\ fallbackNote = <<>>
    /\ tmpFiles = {}
    /\ raw = NoRaw
    /\ response = NoResponse
    /\ run = NoRun
    /\ vdone = FALSE

\* execute_script up to the call of _remote_runner: validate, return early
\* when rejected, else build the harness and post it
ExecuteStart(s, t) ==
    /\ pc = "idle"
    /\ script' = s
    /\ timeout' = t
    /\ validation' = validate_script(s)
    /\ vdone' = TRUE
    /\ IF ~validate_script(s).ok
       THEN /\ response' = Response(PyNone, <<>>, validate_script(s).err)
            /\ pc' = "done"
            /\ UNCHANGED <<netReq, remoteCalls, remoteState>>
       ELSE /\ pc' = "remote_wait"
            /\ netReq' = "sent"
            /\ remoteCalls' = remoteCalls + 1
            /\ remoteState' = "pending"
            /\ UNCHANGED response
    /\ UNCHANGED <<netResp, runnerPc, localCalls, fallbackNote, tmpFiles, raw, run>>

\* the except branch of execute_script is entered with exception e
EnterFallback(reason) ==
    /\ pc' = "fallback"
    /\ remoteState' = "failed"
    /\ fallbackNote' = FallbackNote(reason)

\* requests.post raises before the request reaches the runner
ConnectFail ==
    /\ pc = "remote_wait"
    /\ netReq = "sent"
    /\ netReq' = "lost"
    /\ EnterFallback("ConnectionError")
    /\ UNCHANGED <<script, timeout, validation, netResp, runnerPc, remoteCalls, localCalls,
                   tmpFiles, raw, response, run, vdone>>

\* requests.post gives up after REQUEST_TIMEOUT; a response still under way is dropped
RemoteDeadline ==
    /\ pc = "remote_wait"
    /\ netResp' = NoResp
    /\ EnterFallback("ReadTimeout")
    /\ UNCHANGED <<script, timeout, validation, netReq, runnerPc, remoteCalls, localCalls,
                   tmpFiles, raw, response, run, vdone>>

\* run_harness of the runner service, up to the start of the child process
RunnerStart(f) ==
    /\ netReq = "sent"
    /\ runnerPc = "idle"
    /\ netReq' = "delivered"
    /\ CASE f = "ok" ->
              /\ runnerPc' = "running"
              /\ tmpFiles' = tmpFiles \cup {"runner"}
              /\ UNCHANGED netResp
         [] f = "create_fault" ->
              /\ runnerPc' = "done"
              /\ UNCHANGED tmpFiles
              /\ netResp' = IF pc = "remote_wait" THEN HttpResp(500, NoBody, NoRun) ELSE netResp
         [] f = "write_fault" ->
              /\ runnerPc' = "done"
              /\ tmpFiles' = tmpFiles \cup {"runner"}
              /\ netResp' = IF pc = "remote_wait" THEN HttpResp(500, NoBody, NoRun) ELSE netResp
         [] f = "spawn_fault" ->
              /\ runnerPc' = "done"
              /\ UNCHANGED tmpFiles
              /\ netResp' = IF pc = "remote_wait"
                            THEN HttpResp(200, RunnerBody(RunnerInternalError), NoRun)
                            ELSE netResp
    /\ UNCHANGED <<script, timeout, pc, validation, remoteCalls, localCalls, remoteState,
                   fallbackNote, raw, response, run, vdone>>

\* JSON objects a service at RUNNER_URL other than run_harness may answer
\* with: some of the three keys are missing
PartialKeySets ==
    (SUBSET {"stdout", "stderr", "return_code"}) \ {{"stdout", "stderr", "return_code"}}
ForeignCodes == {0, -1}

\* the endpoint at RUNNER_URL answers 200 with such a body
ForeignRespond(keys, rc) ==
    /\ pc = "remote_wait"
    /\ netReq = "sent"
    /\ netReq' = "delivered"
    /\ netResp' = HttpResp(200, Body(keys, <<>>, <<>>, IF "return_code" \in keys THEN rc ELSE 0),
                           NoRun)
    /\ UNCHANGED <<script, timeout, pc, validation, runnerPc, remoteCalls, localCalls,
                   remoteState, fallbackNote, tmpFiles, raw, response, run, vdone>>

\* what the child process of a backend yields for behaviour r under timeout t
RunnerResult(r, t) == IF r.ret.kind = "hang" THEN RunnerTimeoutResult(t) ELSE HarnessExit(r)

\* run_harness from the end of the child process (or its timeout) to the
\* response, the caller still waiting for it
RunnerFinish(r) ==
    /\ runnerPc = "running"
    /\ pc = "remote_wait"
    /\ runnerPc' = "done"
    /\ tmpFiles' = tmpFiles \ {"runner"}
    /\ netResp' = HttpResp(200, RunnerBody(RunnerResult(r, timeout)), r)
    /\ UNCHANGED <<script, timeout, pc, validation, netReq, remoteCalls, localCalls, remoteState,
                   fallbackNote, raw, response, run, vdone>>

\* the same after the caller gave up: the response reaches nobody
RunnerFinishUnheard ==
    /\ runnerPc = "running"
    /\ pc # "remote_wait"
    /\ runnerPc' = "done"
    /\ tmpFiles' = tmpFiles \ {"runner"}
    /\ UNCHANGED <<script, timeout, pc, validation, netReq, netResp, remoteCalls, localCalls,
                   remoteState, fallbackNote, raw, response, run, vdone>>

\* RemoteReturn treating a non-zero return_code like a failed request
RemoteReturnFallbackOnError ==
    /\ pc = "remote_wait"
    /\ netResp.status # 0
    /\ IF netResp.status >= 400 \/ RemoteRaw(netResp.body).return_code # 0
       THEN /\ EnterFallback("HTTPError")
            /\ UNCHANGED <<raw, response, run>>
       ELSE /\ raw' = RemoteRaw(netResp.body)
            /\ response' = Normalize(raw', timeout)
            /\ run' = netResp.run
            /\ pc' = "done"
            /\ remoteState' = "ok"
            /\ UNCHANGED fallbackNote
    /\ UNCHANGED <<script, timeout, validation, netReq, netResp, runnerPc, remoteCalls,
                   localCalls, tmpFiles, vdone>>

\* _remote_runner from the arrival of the response, and the rest of execute_script
RemoteReturn ==
    /\ pc = "remote_wait"
    /\ netResp.status # 0
    /\ IF netResp.status >= 400
       THEN /\ EnterFallback("HTTPError")
            /\ UNCHANGED <<raw, response, run>>
       ELSE /\ raw' = RemoteRaw(netResp.body)
            /\ response' = Normalize(raw', timeout)
            /\ run' = netResp.run
            /\ pc' = "done"
            /\ remoteState' = "ok"
            /\ UNCHANGED fallbackNote
    /\ UNCHANGED <<script, timeout, validation, netReq, netResp, runnerPc, remoteCalls,
                   localCalls, tmpFiles, vdone>>

\* LocalStart inside a retry loop: a failed start is attempted again
LocalStartRetrying(f) ==
    /\ pc = "fallback"
    /\ localCalls' = localCalls + 1
    /\ pc' = IF f = "ok" THEN "local_run" ELSE "fallback"
    /\ tmpFiles' = IF f = "create_fault" THEN tmpFiles ELSE tmpFiles \cup {"api"}
    /\ UNCHANGED <<script, timeout, validation, netReq, netResp, runnerPc, remoteCalls,
                   remoteState, fallbackNote, raw, response, run, vdone>>

\* _local_runner called from the except branch, up to the start of the child process
LocalStart(f) ==
    /\ pc = "fallback"
    /\ localCalls' = localCalls + 1
    /\ pc' = IF f = "ok" THEN "local_run" ELSE "fault"
    /\ tmpFiles' = IF f = "create_fault" THEN tmpFiles ELSE tmpFiles \cup {"api"}
    /\ UNCHANGED <<script, timeout, validation, netReq, netResp, runnerPc, remoteCalls,
                   remoteState, fallbackNote, raw, response, run, vdone>>

\* what _local_runner returns for behaviour r under timeout t
LocalRaw(r, t) == IF r.ret.kind = "hang" THEN LocalTimeoutRaw(t) ELSE RawOf(HarnessExit(r))

\* _local_runner from the end of the child process (or its timeout), then the
\* fallback note and the rest of execute_script
LocalFinish(r) ==
    /\ pc = "local_run"
    /\ tmpFiles' = tmpFiles \ {"api"}
    /\ raw' = WithFallbackNote(fallbackNote, LocalRaw(r, timeout))
    /\ response' = Normalize(raw', timeout)
    /\ run' = r
    /\ pc' = "done"
    /\ UNCHANGED <<script, timeout, validation, netReq, netResp, runnerPc, remoteCalls,
                   localCalls, remoteState, fallbackNote, vdone>>

Next ==
    \/ (pc = "idle" /\ \E s \in ExecScripts, t \in Timeouts : ExecuteStart(s, t))
    \/ ConnectFail
    \/ RemoteDeadline
    \/ \E f \in StartFaults : RunnerStart(f)
    \/ \E keys \in PartialKeySets, rc \in ForeignCodes : ForeignRespond(keys, rc)
    \/ (runnerPc = "running" /\ pc = "remote_wait" /\ \E r \in Runs : RunnerFinish(r))
    \/ RunnerFinishUnheard
    \/ RemoteReturn
    \/ \E f \in StartFaults : LocalStart(f)
    \/ (pc = "local_run" /\ \E r \in Runs : LocalFinish(r))

Spec == Init /\ [][Next]_vars

\* The validator on its own: a script arrives, validate_script is applied
InitValidate ==
    /\ script \in ScriptsUpTo(MaxStmts)
    /\ timeout = DEFAULT_TIMEOUT_SECS
    /\ pc = "idle"
    /\ validation = NoValidation
    /\ netReq = "none"
    /\ netResp = NoResp
    /\ runnerPc = "idle"
    /\ remoteCalls = 0
    /\ localCalls = 0
    /\ remoteState = "none"
    /\ fallbackNote = <<>>
    /\ tmpFiles = {}
    /\ raw = NoRaw
    /\ response = NoResponse
    /\ run = NoRun
    /\ vdone = FALSE

Validate ==
    /\ ~vdone
    /\ pc = "idle"
    /\ script # NoScript
    /\ validation' = validate_script(script)
    /\ vdone' = TRUE
    /\ UNCHANGED <<script, timeout, pc, netReq, netResp, runnerPc, remoteCalls, localCalls,
                   remoteState, fallbackNote, tmpFiles, raw, response, run>>

NextValidate == Validate

SpecValidate == InitValidate /\ [][NextValidate]_vars

-----------------------------------------------------------------------------
(* Properties *)

IsInfix(p, t) == \E i \in 0..(Len(t) - Len(p)) : SubSeq(t, i + 1, i + Len(p)) = p

\* the script has no FunctionDef named main in its top-level statements
LacksTopLevelMain(s) ==
    ~\E i \in 1..Len(s.body) : s.body[i] = Stmt("FunctionDef", "main", "", <<>>)

\* the issues of the denylisted calls, imports and bare references of one statement
StmtDenylistIssues(st) ==
    CASE st.k = "CallName" /\ <<st.a>> \in DISALLOWED_GLOBAL_NAMES -> { CallIssue(st.a) }
      [] st.k = "CallAttr" /\ <<st.a, st.b>> \in DISALLOWED_ATTRS -> { AttrCallIssue(st.a, st.b) }
      [] st.k = "Name" /\ st.a \in DISALLOWED_REFERENCES -> { ReferenceIssue(st.a) }
      [] st.k = "Attr" /\ <<st.a, st.b>> \in DISALLOWED_ATTRS -> { AttributeIssue(st.a, st.b) }
      [] st.k = "Import" ->
            { ImportIssue(st.m[i]) : i \in {j \in 1..Len(st.m) : ModuleDisallowed(st.m[j])} }
      [] st.k = "ImportFrom" /\ ModuleDisallowed(st.m[1]) -> { ImportFromIssue(st.m[1]) }
      [] OTHER -> {}

DenylistIssues(s) == UNION { StmtDenylistIssues(s.body[i]) : i \in 1..Len(s.body) }

\* function definitions anywhere in the script
DefCount(s) ==
    Cardinality({i \in 1..Len(s.body) : s.body[i].k \in {"FunctionDef", "If"}}) + s.extraDefs

\* main returned a value the payload encoder serializes
ReturnedSerializable == run.ret.kind = "return" /\ json_dumps(run.ret.val).ok
\* that value as the payload decoder gives it back
DecodedReturn == json_loads(<<json_dumps(run.ret.val).text>>).val

WellFormed(resp) ==
    resp.status = 200 /\ resp.body.keys = {"stdout", "stderr", "return_code"}

\* C1: a request makes at most one remote attempt and at most one local
\* attempt; the local attempt exists only once the remote attempt has ended
\* by failing, and is never under way while the remote attempt is pending.
C1_AttemptsSequential ==
    /\ remoteCalls <= 1
    /\ localCalls <= 1
    /\ (localCalls = 1 => remoteCalls = 1 /\ remoteState = "failed")
    /\ (pc \in {"fallback", "local_run"} => remoteState = "failed")
    /\ (remoteState = "pending" => pc = "remote_wait" /\ localCalls = 0)

\* a request that fell back and ran locally to its end
C1_Witness == pc = "done" /\ remoteCalls = 1 /\ localCalls = 1

\* C2: a well-formed remote response, whatever its return_code, ends the
\* request without the local backend, the response being the normalised
\* remote result; after a transport failure the local backend is called and
\* the stderr of its run starts with the "[runner-unavailable] <reason>" note.
C2_FallbackOnlyOnTransportFailure ==
    /\ (WellFormed(netResp) /\ pc # "remote_wait" =>
            /\ remoteState = "ok"
            /\ pc = "done"
            /\ localCalls = 0
            /\ raw = RemoteRaw(netResp.body)
            /\ response = Normalize(RemoteRaw(netResp.body), timeout))
    /\ (remoteState = "ok" => localCalls = 0)
    /\ (remoteState = "failed" /\ pc # "fallback" => localCalls = 1)
    /\ (remoteState = "failed" /\ pc = "done" =>
            /\ Head(fallbackNote) = "[runner-unavailable] "
            /\ IsPrefix(fallbackNote, raw.stderr))

\* the remote run ended with a user exception and was used as it is
C2_Witness ==
    pc = "done" /\ remoteState = "ok" /\ raw.return_code = 1 /\ localCalls = 0

\* C3: execute_script never ends in an uncaught exception.
C3_NeverFaults == pc # "fault"

\* C4: once a backend run is over, the temporary file it created is gone.
C4_TempFileRemoved ==
    /\ (pc \in {"done", "fault"} => "api" \notin tmpFiles)
    /\ (runnerPc = "done" => "runner" \notin tmpFiles)

\* C5 as stated: every script lacking a top-level main is rejected with the
\* missing-entry-point message and no backend is invoked.
C5_Original ==
    (vdone /\ script.pytype = "str" /\ LacksTopLevelMain(script)) =>
        /\ pc = "done"
        /\ validation = Rejected(MissingMainMsg)
        /\ response.error = Some(MissingMainMsg)
        /\ remoteCalls = 0 /\ localCalls = 0 /\ netReq = "none"

\* C5 amended: every script lacking a top-level main is rejected and
\* execute_script returns with error set without invoking a backend; the
\* message is the missing-entry-point one when the script is non-empty and
\* within the size limit.
C5_NoMainNoBackend ==
    (vdone /\ script.pytype = "str" /\ LacksTopLevelMain(script)) =>
        /\ pc = "done"
        /\ ~validation.ok
        /\ response = Response(PyNone, <<>>, validation.err)
        /\ response.error.some
        /\ remoteCalls = 0 /\ localCalls = 0 /\ netReq = "none" /\ runnerPc = "idle"
        /\ tmpFiles = {}
        /\ (~script.blank /\ script.size <= MAX_SCRIPT_SIZE =>
                response.error = Some(MissingMainMsg))

\* a parseable script whose only definition of main is nested was rejected
C5_Witness ==
    /\ pc = "done"
    /\ script.parses /\ script.body = << Stmt("If", "main", "", <<>>) >>
    /\ script.size <= MAX_SCRIPT_SIZE
    /\ response.error = Some(MissingMainMsg)

\* C6: a script with a denylisted call, import or bare reference is rejected
\* and the message lists the issue of each such construct.
C6_Original ==
    (vdone /\ script.pytype = "str") =>
        \A issue \in DenylistIssues(script) :
            /\ ~validation.ok
            /\ validation.err.some
            /\ IsInfix(issue, validation.err.v)

\* C7 as stated: a parseable script within the size limit that has a
\* top-level main and no denylisted construct is accepted.
C7_Original ==
    (/\ vdone /\ script.pytype = "str" /\ script.parses /\ ~script.blank
     /\ script.size <= MAX_SCRIPT_SIZE
     /\ ~LacksTopLevelMain(script)
     /\ DenylistIssues(script) = {}) => validation = Accepted

\* C7 amended: ... and no more than MAX_FUNCTION_DEFS function definitions
\* is accepted.
C7_AcceptsCleanScripts ==
    (/\ vdone /\ script.pytype = "str" /\ script.parses /\ ~script.blank
     /\ script.size <= MAX_SCRIPT_SIZE
     /\ ~LacksTopLevelMain(script)
     /\ DenylistIssues(script) = {}
     /\ DefCount(script) <= MAX_FUNCTION_DEFS) => validation = Accepted

\* a script with exactly MAX_FUNCTION_DEFS definitions and other statements was accepted
C7_Witness ==
    /\ vdone /\ validation = Accepted
    /\ Len(script.body) >= 2
    /\ DefCount(script) = MAX_FUNCTION_DEFS

\* C8: when main returns a value that cannot be serialized (exit status 2,
\* marker line with the __error__ payload), the response has result None
\* and an error.
C8_Original ==
    (pc = "done" /\ run.ret.kind = "return" /\ ~json_dumps(run.ret.val).ok
     /\ raw.return_code = 2) =>
        response.result = PyNone /\ response.error.some

\* C9: whatever main writes to stdout before returning a serializable value,
\* the response carries that value and no error.
C9_Original ==
    (pc = "done" /\ ReturnedSerializable) =>
        response.result = DecodedReturn /\ response.error = None

\* the printed lines of the run that contain the marker
MarkerTextLines == { i \in 1..Len(run.lines) : RESULT_MARKER \in SeqToSet(run.lines[i]) }
PrintedOnlyLines == run.frag = <<>>
InStdout(line) == line \in SeqToSet(splitlines(response.stdout))

\* C10 as stated: a printed line containing the marker does not disturb the
\* result and still appears in the response's stdout.
C10_Original ==
    (pc = "done" /\ ReturnedSerializable /\ PrintedOnlyLines) =>
        \A i \in MarkerTextLines :
            /\ response.result = DecodedReturn
            /\ response.error = None
            /\ InStdout(run.lines[i])

\* C10 amended: ... the result is the returned value; the printed line still
\* appears in stdout when it does not begin with the marker, and is left out
\* of stdout when it does.
C10_MarkerIsolation ==
    (pc = "done" /\ ReturnedSerializable /\ PrintedOnlyLines) =>
        \A i \in MarkerTextLines :
            /\ response.result = DecodedReturn
            /\ response.error = None
            /\ (InStdout(run.lines[i]) <=> ~startswith_marker(run.lines[i]))

\* main printed a line with the marker inside it, then returned 42
C10_Witness ==
    /\ pc = "done"
    /\ run.lines = << <<"x", RESULT_MARKER, "x">> >> /\ run.frag = <<>>
    /\ run.ret = Outcome("return", PyInt42, 0)
    /\ response.result = PyInt42
    /\ response.stdout = <<"x", RESULT_MARKER, "x">>

\* main prints nothing and returns a value the payload encoder accepts
ReturnsOnly ==
    /\ pc = "done"
    /\ run.lines = <<>> /\ run.frag = <<>>
    /\ ReturnedSerializable

\* C11 as stated: the script "def main(): return V", V serializable, gets a
\* response whose result equals V.
C11_Original ==
    ReturnsOnly => response.result = run.ret.val /\ response.error = None

\* C11 amended: the script "def main(): return V", V serializable, gets a
\* response with no error whose result is V itself when V is None or an
\* integer, and the list of V's elements when V is a tuple.
C11_RoundTrip ==
    ReturnsOnly =>
        /\ response.error = None
        /\ response.result =
               IF run.ret.val.t = "tuple" THEN PyVal("list", run.ret.val.v) ELSE run.ret.val

\* main returned the tuple (1,) and the response carries the list [1]
C11_Witness ==
    /\ ReturnsOnly
    /\ run.ret.val = PyTuple1
    /\ response.result = PyList1
    /\ response.error = None

\* C12: result and error are never both set, and both are absent only when
\* main returned a value whose payload is JSON null.
C12_ResultXorError ==
    pc = "done" =>
        /\ ~(response.result # PyNone /\ response.error # None)
        /\ (response.result = PyNone /\ response.error = None =>
                run.ret.kind = "return" /\ json_dumps(run.ret.val) = [ok |-> TRUE, text |-> "null"])

\* the response execute_script gives when behaviour r is run by the remote backend
RemoteResponseFor(r, t) == Normalize(RemoteRaw(RunnerBody(RunnerResult(r, t))), t)

\* C13: whichever backend ran the script, the response is the one the remote
\* path gives for the same behaviour of the harness (same stdout, stderr and
\* exit status, timeouts and user exceptions included).
C13_BackendsAgree ==
    (pc = "done" /\ run # NoRun) => response = RemoteResponseFor(run, timeout)

\* the text names the timeout and its length
MentionsTimeout(text, t) == IsInfix(<<"Execution timed out after ", ToString(t)>>, text)

\* C14: when the script does not end within the timeout on the backend that
\* runs it, the response has no result and an error that mentions the
\* timeout, the raw exit status is -1, and the temporary file of that run is
\* gone.
C14_Timeout ==
    (pc = "done" /\ run = HangRun) =>
        /\ response.result = PyNone
        /\ response.error # None
        /\ MentionsTimeout(response.error.v, timeout)
        /\ raw.return_code = -1
        /\ (localCalls = 1 => "api" \notin tmpFiles)
        /\ (remoteState = "ok" => "runner" \notin tmpFiles)

\* the script hung in the local backend after the runner was unreachable
C14_Witness ==
    /\ pc = "done"
    /\ run = HangRun
    /\ localCalls = 1
    /\ raw.return_code = -1
    /\ IsPrefix(fallbackNote \o <<NL>> \o TimeoutStderr(timeout), response.error.v)

\* the returned value as JSON gives it back: a tuple is the list of its elements
ReturnedAsJson ==
    IF run.ret.val.t = "tuple" THEN PyVal("list", run.ret.val.v) ELSE run.ret.val

\* the local run after a failed remote attempt left a decodable marker line
FallbackDecodable ==
    /\ pc = "done"
    /\ remoteState = "failed"
    /\ raw.result_json_text # None
    /\ json_loads(raw.result_json_text.v).ok

\* C15: when the remote backend is unreachable and the local run emits a
\* decodable marker line, the result is the value main returned, error is
\* None, the "[runner-unavailable]" note is in no field of the response, and
\* the raw stderr of the run begins with the note.
C15_FallbackSuccess ==
    FallbackDecodable =>
        /\ run.ret.kind = "return"
        /\ response.result = ReturnedAsJson
        /\ response.error = None
        /\ ~IsInfix(<<"[runner-unavailable] ">>, response.stdout)
        /\ Head(fallbackNote) = "[runner-unavailable] "
        /\ IsPrefix(fallbackNote, raw.stderr)

\* C16: a remote response is used as the run's result only if it has
\* success status and a body with the three keys stdout, stderr and
\* return_code; any other response makes the remote attempt fail and the
\* local backend run.
C16_OnlyWellFormedUsed ==
    /\ (remoteState = "ok" => WellFormed(netResp))
    /\ (netResp.status # 0 /\ ~WellFormed(netResp) /\ pc # "remote_wait" =>
            remoteState = "failed" /\ (pc # "fallback" => localCalls = 1))

\* how many times the marker occurs in a text
MarkerCount(text) == Cardinality({i \in DOMAIN text : text[i] = RESULT_MARKER})
\* the marker lines the harness added to what main wrote
HarnessMarkers == MarkerCount(raw.stdout) - MarkerCount(UserStdout(run))

\* C17: of a run that ends by itself, exit status 0 occurs only when the
\* harness emitted the marker line with main's serialized return value,
\* status 1 only when main raised (no marker line from the harness), status 2
\* only when the return value was not serializable (one marker line with the
\* __error__ payload); the harness emits at most one marker line.
C17_ExitStatusClassifies ==
    (pc = "done" /\ run.ret.kind \notin {"none", "hang"}) =>
        /\ HarnessMarkers <= 1
        /\ (raw.return_code = 0 =>
                /\ ReturnedSerializable
                /\ HarnessMarkers = 1
                /\ IsInfix(<<RESULT_MARKER, json_dumps(run.ret.val).text, NL>>, raw.stdout))
        /\ (raw.return_code = 1 => run.ret.kind = "raise" /\ HarnessMarkers = 0)
        /\ (raw.return_code = 2 =>
                /\ run.ret.kind = "return" /\ ~json_dumps(run.ret.val).ok
                /\ HarnessMarkers = 1
                /\ IsInfix(<<RESULT_MARKER, ErrorPayload, NL>>, raw.stdout))

\* the script is a non-empty string within the size limit that does not parse
Unparseable ==
    /\ script.pytype = "str"
    /\ ~script.blank
    /\ script.size <= MAX_SCRIPT_SIZE
    /\ ~script.parses

\* C18: a non-empty, within-size script that fails to parse is rejected with
\* exactly one issue, the syntax-invalid one, and with no missing-main or
\* denylist issue.
C18_SyntaxIssueOnly ==
    (vdone /\ Unparseable) =>
        /\ ~validation.ok
        /\ validation.err # None
        /\ IsInfix(SyntaxIssue, validation.err.v)
        /\ ~IsInfix(MissingMainMsg, validation.err.v)
        /\ ~IsInfix(<<"; ">>, validation.err.v)

\* a backend was run and no line of its stdout begins with the marker
NoMarkerLine ==
    /\ pc = "done"
    /\ validation.ok
    /\ \A i \in DOMAIN splitlines(raw.stdout) : ~startswith_marker(splitlines(raw.stdout)[i])

\* C19: when no marker line is found in stdout, the result is None and the
\* error is the stripped stderr if that is non-empty, otherwise the timeout
\* message if the exit status is -1, otherwise the no-result message naming
\* the exit status.
C19_ErrorPriority ==
    NoMarkerLine =>
        /\ response.result = PyNone
        /\ response.error # None
        /\ (strip(raw.stderr) # <<>> => response.error.v = strip(raw.stderr))
        /\ (strip(raw.stderr) = <<>> /\ raw.return_code = -1 =>
                response.error.v = TimeoutError(timeout))
        /\ (strip(raw.stderr) = <<>> /\ raw.return_code # -1 =>
                response.error.v = NoResultError(raw.return_code))

\* no marker line, nothing on stderr, exit status -1: the timeout message
C19_Witness ==
    /\ NoMarkerLine
    /\ strip(raw.stderr) = <<>>
    /\ raw.return_code = -1
    /\ response.error = Some(TimeoutError(timeout))

\* no marker line and a stderr of white space only: the no-result message
C19_WitnessBlankStderr ==
    /\ NoMarkerLine
    /\ raw.stderr # <<>> /\ strip(raw.stderr) = <<>>
    /\ response.error = Some(NoResultError(raw.return_code))

\* C20: for every remote call the transport deadline of the request is
\* strictly greater than the execution timeout sent in its payload.
C20_DeadlineExceedsTimeout ==
    remoteCalls > 0 => REQUEST_TIMEOUT > timeout

====
